---- MODULE Spec2Model ----
(***************************************************************************)
(* Model of package tfjson (config.go, plan.go): the expression decoder    *)
(* unmarshalExpression / unmarshalExpressionBlocks, the encoding of an     *)
(* Expression by encoding/json from the struct's field tags,               *)
(* ConfigResource.UnmarshalJSON and Config.Validate.                       *)
(*                                                                         *)
(* Raw JSON is a tagged record: "bad" (bytes that are not JSON), "null",   *)
(* "num" (the number token's text), "str", "bool", "arr" (a sequence),     *)
(* "obj" (a function from member names to raw JSON).  Go values are tagged *)
(* records too: "nil" (a nil interface, slice, map or pointer), "float64", *)
(* "string", "bool", "slice", "map".                                       *)
(***************************************************************************)
EXTENDS Integers, Sequences, FiniteSets, TLC

VARIABLES raw, pc, expr, err, encoded, expr2, err2, pos,
          b, depth, r, recv, rerr,
          doc, c, plan, verr, vpc

vars == <<raw, pc, expr, err, encoded, expr2, err2, pos,
          b, depth, r, recv, rerr, doc, c, plan, verr, vpc>>

exprVars == <<expr, err, encoded, expr2, err2, pos>>
resVars == <<b, depth, r, recv, rerr>>
docVars == <<doc, c, plan, verr, vpc>>

\* ---------------------------------------------------------------- bounds
\* Depth to which arrays of objects are nested inside arrays of objects.
MaxDepth == 2
\* Largest number of blocks in one generated array of objects.
MaxBlocks == 2
\* Number of nested activations of UnmarshalJSON after which the goroutine
\* stack is taken to be exhausted.
MaxStack == 3

\* ------------------------------------------------------------- raw JSON
Bad == [t |-> "bad"]
JNull == [t |-> "null"]
JNum(s) == [t |-> "num", v |-> s]
JStr(s) == [t |-> "str", v |-> s]
JBool(x) == [t |-> "bool", v |-> x]
JArr(s) == [t |-> "arr", v |-> s]
JObj(f) == [t |-> "obj", v |-> f]
NoMembers == [k \in {} |-> JNull]

\* The name encoding/json gives a JSON value's kind in an UnmarshalTypeError.
KindName(j) ==
  CASE j.t = "num" -> "number"
    [] j.t = "str" -> "string"
    [] j.t = "bool" -> "bool"
    [] j.t = "arr" -> "array"
    [] j.t = "obj" -> "object"
    [] OTHER -> "null"

\* --------------------------------------------------------------- Go values
GNil == [t |-> "nil"]
SliceOf(s) == [t |-> "slice", v |-> s]
MapOf(f) == [t |-> "map", v |-> f]
\* len-and-range view of a slice: a nil slice has no elements.
Elems(x) == IF x.t = "nil" THEN <<>> ELSE x.v
\* range view of a map: a nil map has no entries.
Entries(m) == IF m.t = "nil" THEN NoMembers ELSE m.v

\* The zero Expression, Expression{}.
ZeroExpression == [ConstantValue |-> GNil, References |-> GNil, NestedBlocks |-> GNil]

\* ------------------------------------------------------------------ errors
NoErr == [kind |-> "nil", Value |-> "", Type |-> "", Field |-> ""]
SyntaxError == [kind |-> "SyntaxError", Value |-> "", Type |-> "", Field |-> ""]
TypeError(value, type, field) ==
  [kind |-> "UnmarshalTypeError", Value |-> value, Type |-> type, Field |-> field]

\* encoding/json keeps the first error it saved.
FirstError(errs) ==
  IF \E i \in DOMAIN errs : errs[i] # NoErr
  THEN errs[CHOOSE i \in DOMAIN errs :
              errs[i] # NoErr /\ \A j \in DOMAIN errs : j < i => errs[j] = NoErr]
  ELSE NoErr

\* The order in which the members of the generated objects appear in the text.
memberOrder == <<"constant_value", "references", "NestedBlocks", "a", "b", "other">>
KeysInOrder(f) == SelectSeq(memberOrder, LAMBDA k : k \in DOMAIN f)

\* ------------------------------------------- encoding/json: interface{}
\* strconv.ParseFloat of a number token, as decoding into interface{} does.
ParseFloat(tok) ==
  CASE tok = "1" -> 1
    [] tok = "1.0" -> 1
    [] tok = "5" -> 5
    [] OTHER -> 0

\* The number token encoding/json writes for a float64.
FormatFloat(x) ==
  CASE x = 1 -> "1"
    [] x = 5 -> "5"
    [] OTHER -> "0"

RECURSIVE toInterface(_)
\* json.Unmarshal into an interface{} (ConstantValue).
toInterface(j) ==
  CASE j.t = "null" -> GNil
    [] j.t = "num" -> [t |-> "float64", v |-> ParseFloat(j.v)]
    [] j.t = "str" -> [t |-> "string", v |-> j.v]
    [] j.t = "bool" -> [t |-> "bool", v |-> j.v]
    [] j.t = "arr" -> SliceOf([i \in DOMAIN j.v |-> toInterface(j.v[i])])
    [] OTHER -> MapOf([k \in DOMAIN j.v |-> toInterface(j.v[k])])

RECURSIVE marshalInterface(_)
\* json.Marshal of the value held in an interface{}.
marshalInterface(g) ==
  CASE g.t = "nil" -> JNull
    [] g.t = "float64" -> JNum(FormatFloat(g.v))
    [] g.t = "string" -> JStr(g.v)
    [] g.t = "bool" -> JBool(g.v)
    [] g.t = "slice" -> JArr([i \in DOMAIN g.v |-> marshalInterface(g.v[i])])
    [] OTHER -> JObj([k \in DOMAIN g.v |-> marshalInterface(g.v[k])])

\* ------------------------------- encoding/json: decoding into Expression
\* json.Unmarshal into References []string.
unmarshalStrings(j) ==
  CASE j.t = "null" -> [val |-> GNil, err |-> NoErr]
    [] j.t = "arr" ->
         [val |-> SliceOf([i \in DOMAIN j.v |->
                             IF j.v[i].t = "str" THEN j.v[i].v ELSE ""]),
          err |-> FirstError([i \in DOMAIN j.v |->
                             IF j.v[i].t \in {"str", "null"} THEN NoErr
                             ELSE TypeError(KindName(j.v[i]), "string", "references")])]
    [] OTHER -> [val |-> GNil, err |-> TypeError(KindName(j), "[]string", "references")]

RECURSIVE unmarshalStruct(_)

\* json.Unmarshal into one element of NestedBlocks, a map[string]Expression:
\* every value is decoded as a plain struct (Expression has no UnmarshalJSON).
unmarshalBlock(e) ==
  CASE e.t = "null" -> [val |-> GNil, err |-> NoErr]
    [] e.t = "obj" ->
         LET rs == [k \in DOMAIN e.v |-> unmarshalStruct(e.v[k])]
             ks == KeysInOrder(e.v)
             first == FirstError([i \in DOMAIN ks |-> rs[ks[i]].err])
         IN [val |-> MapOf([k \in DOMAIN e.v |-> rs[k].expr]),
             err |-> IF first = NoErr THEN NoErr
                     ELSE TypeError(first.Value, first.Type, "NestedBlocks")]
    [] OTHER -> [val |-> GNil,
                 err |-> TypeError(KindName(e), "map[string]tfjson.Expression", "NestedBlocks")]

\* json.Unmarshal into NestedBlocks []map[string]Expression, which has no tag
\* and so is matched by the member named NestedBlocks.
unmarshalNestedBlocks(j) ==
  CASE j.t = "null" -> [val |-> GNil, err |-> NoErr]
    [] j.t = "arr" ->
         LET bs == [i \in DOMAIN j.v |-> unmarshalBlock(j.v[i])]
         IN [val |-> SliceOf([i \in DOMAIN j.v |-> bs[i].val]),
             err |-> FirstError([i \in DOMAIN j.v |-> bs[i].err])]
    [] OTHER -> [val |-> GNil,
                 err |-> TypeError(KindName(j), "[]map[string]tfjson.Expression", "NestedBlocks")]

\* json.Unmarshal(raw, &result) with result an Expression: the members
\* constant_value, references and NestedBlocks fill the three fields, other
\* members are skipped, a type error is saved while decoding goes on.
\* (Member names are matched without regard to case; the inputs spell them
\* as the tags do.)
unmarshalStruct(j) ==
  CASE j.t = "bad" -> [expr |-> ZeroExpression, err |-> SyntaxError]
    [] j.t = "null" -> [expr |-> ZeroExpression, err |-> NoErr]
    [] j.t = "obj" ->
         LET cv == IF "constant_value" \in DOMAIN j.v
                   THEN toInterface(j.v["constant_value"]) ELSE GNil
             refs == IF "references" \in DOMAIN j.v
                     THEN unmarshalStrings(j.v["references"])
                     ELSE [val |-> GNil, err |-> NoErr]
             nb == IF "NestedBlocks" \in DOMAIN j.v
                   THEN unmarshalNestedBlocks(j.v["NestedBlocks"])
                   ELSE [val |-> GNil, err |-> NoErr]
         IN [expr |-> [ConstantValue |-> cv, References |-> refs.val,
                       NestedBlocks |-> nb.val],
             err |-> FirstError(<<refs.err, nb.err>>)]
    [] OTHER -> [expr |-> ZeroExpression,
                 err |-> TypeError(KindName(j), "tfjson.Expression", "")]

\* json.Unmarshal(raw, &rawNested) with rawNested a []map[string]json.RawMessage:
\* succeeds on null and on an array whose elements are objects or null.
unmarshalRawNested(j) ==
  CASE j.t = "bad" -> [val |-> GNil, err |-> SyntaxError]
    [] j.t = "null" -> [val |-> GNil, err |-> NoErr]
    [] j.t = "arr" ->
         [val |-> SliceOf([i \in DOMAIN j.v |->
                             IF j.v[i].t = "obj" THEN MapOf(j.v[i].v) ELSE GNil]),
          err |-> FirstError([i \in DOMAIN j.v |->
                             IF j.v[i].t \in {"obj", "null"} THEN NoErr
                             ELSE TypeError(KindName(j.v[i]), "map[string]json.RawMessage", "")])]
    [] OTHER -> [val |-> GNil,
                 err |-> TypeError(KindName(j), "[]map[string]json.RawMessage", "")]

\* ------------------------------------------------- the expression decoder
RECURSIVE unmarshalExpression(_)

\* unmarshalExpressionBlocks with line 160 returning result, the blocks
\* appended before the failure, instead of Expression{}.
unmarshalExpressionBlocksPartial(rawNested) ==
  LET rs == Elems(rawNested)
      dec == [i \in DOMAIN rs |->
               [k \in DOMAIN Entries(rs[i]) |-> unmarshalExpression(Entries(rs[i])[k])]]
      blockErr == [i \in DOMAIN rs |->
                    LET ks == KeysInOrder(Entries(rs[i]))
                    IN FirstError([n \in DOMAIN ks |-> dec[i][ks[n]].err])]
      good == {n \in DOMAIN rs : \A m \in 1..n : blockErr[m] = NoErr}
  IN [expr |-> [ConstantValue |-> GNil, References |-> GNil,
                NestedBlocks |->
                  IF good = {} THEN GNil
                  ELSE SliceOf([i \in good |->
                         MapOf([k \in DOMAIN Entries(rs[i]) |-> dec[i][k].expr])])],
      err |-> FirstError(blockErr)]

\* unmarshalExpressionBlocks appending a block only when it has keys.
unmarshalExpressionBlocksSkipEmpty(rawNested) ==
  LET rs == SelectSeq(Elems(rawNested), LAMBDA m : DOMAIN Entries(m) # {})
      dec == [i \in DOMAIN rs |->
               [k \in DOMAIN Entries(rs[i]) |-> unmarshalExpression(Entries(rs[i])[k])]]
      blockErr == [i \in DOMAIN rs |->
                    LET ks == KeysInOrder(Entries(rs[i]))
                    IN FirstError([n \in DOMAIN ks |-> dec[i][ks[n]].err])]
      first == FirstError(blockErr)
  IN IF first # NoErr
     THEN [expr |-> ZeroExpression, err |-> first]
     ELSE [expr |-> [ConstantValue |-> GNil, References |-> GNil,
                     NestedBlocks |->
                       IF Len(rs) = 0 THEN GNil
                       ELSE SliceOf([i \in DOMAIN rs |->
                              MapOf([k \in DOMAIN Entries(rs[i]) |-> dec[i][k].expr])])],
           err |-> NoErr]

\* config.go unmarshalExpressionBlocks.  The keys of a block are ranged over
\* in KeysInOrder; Go ranges over a map in no fixed order, which decides only
\* which error is returned when several keys of one block fail.
unmarshalExpressionBlocks(rawNested) ==
  LET rs == Elems(rawNested)
      dec == [i \in DOMAIN rs |->
               [k \in DOMAIN Entries(rs[i]) |-> unmarshalExpression(Entries(rs[i])[k])]]
      blockErr == [i \in DOMAIN rs |->
                    LET ks == KeysInOrder(Entries(rs[i]))
                    IN FirstError([n \in DOMAIN ks |-> dec[i][ks[n]].err])]
      first == FirstError(blockErr)
  IN IF first # NoErr
     THEN [expr |-> ZeroExpression, err |-> first]
     ELSE [expr |-> [ConstantValue |-> GNil, References |-> GNil,
                     NestedBlocks |->
                       IF Len(rs) = 0 THEN GNil
                       ELSE SliceOf([i \in DOMAIN rs |->
                              MapOf([k \in DOMAIN Entries(rs[i]) |-> dec[i][k].expr])])],
           err |-> NoErr]

\* unmarshalExpression without the array check of lines 139-142.
unmarshalExpressionStructOnly(j) ==
  LET result == unmarshalStruct(j)
  IN IF result.err # NoErr
     THEN [expr |-> ZeroExpression, err |-> result.err]
     ELSE result

\* config.go unmarshalExpression.
unmarshalExpression(j) ==
  LET nested == unmarshalRawNested(j)
  IN IF nested.err = NoErr
     THEN unmarshalExpressionBlocks(nested.val)
     ELSE LET result == unmarshalStruct(j)
          IN IF result.err # NoErr
             THEN [expr |-> ZeroExpression, err |-> result.err]
             ELSE result

\* ------------------------------------------------ encoding an Expression
\* marshalExpression with NestedBlocks left out of the encoding, as under a
\* `json:"-"` tag.
marshalExpressionNoNested(e) ==
  LET names == (IF e.ConstantValue # GNil THEN {"constant_value"} ELSE {})
               \cup (IF Len(Elems(e.References)) > 0 THEN {"references"} ELSE {})
      refs == Elems(e.References)
  IN JObj([k \in names |->
       IF k = "constant_value" THEN marshalInterface(e.ConstantValue)
       ELSE JArr([i \in DOMAIN refs |-> JStr(refs[i])])])

RECURSIVE marshalExpression(_)
\* json.Marshal of an Expression, driven by the field tags: constant_value
\* and references are omitempty, NestedBlocks has no tag and is always written
\* under its Go name.
marshalExpression(e) ==
  LET names == (IF e.ConstantValue # GNil THEN {"constant_value"} ELSE {})
               \cup (IF Len(Elems(e.References)) > 0 THEN {"references"} ELSE {})
               \cup {"NestedBlocks"}
      refs == Elems(e.References)
      blocks == Elems(e.NestedBlocks)
  IN JObj([k \in names |->
       CASE k = "constant_value" -> marshalInterface(e.ConstantValue)
         [] k = "references" -> JArr([i \in DOMAIN refs |-> JStr(refs[i])])
         [] OTHER ->
              IF e.NestedBlocks = GNil THEN JNull
              ELSE JArr([i \in DOMAIN blocks |->
                     IF blocks[i] = GNil THEN JNull
                     ELSE JObj([f \in DOMAIN blocks[i].v |->
                            marshalExpression(blocks[i].v[f])])])])

\* ------------------------------------------------------------ the inputs
Absent == [t |-> "absent"]

\* An object with the given members, Absent ones left out.
MkObj(cv, refs, nb, other) ==
  LET m == [k \in {"constant_value", "references", "NestedBlocks", "other"} |->
              CASE k = "constant_value" -> cv
                [] k = "references" -> refs
                [] k = "NestedBlocks" -> nb
                [] OTHER -> other]
  IN JObj([k \in {n \in DOMAIN m : m[n] # Absent} |-> m[k]])

\* A block with one key.
Block1(k, x) == JObj([n \in {k} |-> x])
\* A block with two keys.
Block2(k1, x1, k2, x2) == JObj([n \in {k1, k2} |-> IF n = k1 THEN x1 ELSE x2])

CidrBlock == MkObj(JStr("10.0.0.0/16"), Absent, Absent, Absent)

ConstMembers == {Absent, JNum("1.0"), JBool(FALSE)}
RefMembers == {Absent, JArr(<<>>), JArr(<<JStr("var.foo")>>), JNum("5")}
NestedMembers ==
  {Absent, JNull, JArr(<<>>), JArr(<<JNull>>),
   JArr(<<Block1("a", CidrBlock)>>),
   JArr(<<Block1("a", JArr(<<JObj(NoMembers)>>))>>)}

\* Values that are not an object: malformed bytes, null, scalars, arrays of
\* scalars, the empty array, arrays of empty or null elements, a mixed array.
Atoms ==
  {Bad, JNull, JNum("5"), JStr("x"), JBool(TRUE),
   JArr(<<>>), JArr(<<JNum("1")>>), JArr(<<JObj(NoMembers)>>), JArr(<<JNull>>),
   JArr(<<JObj(NoMembers), JNum("1")>>)}

LeafObjects ==
  {MkObj(cv, refs, nb, Absent) : cv \in ConstMembers, refs \in RefMembers, nb \in NestedMembers}
  \cup {MkObj(Absent, Absent, Absent, JNum("1"))}

\* The values that are nested inside blocks.
Inner ==
  {JNull, JNum("5"), JArr(<<JNum("1")>>), JObj(NoMembers),
   MkObj(JNum("1.0"), Absent, Absent, Absent),
   MkObj(JBool(FALSE), Absent, Absent, Absent),
   MkObj(Absent, JArr(<<JStr("var.foo")>>), Absent, Absent),
   MkObj(JNum("1.0"), JArr(<<JStr("var.foo")>>), Absent, Absent),
   MkObj(Absent, JNum("5"), Absent, Absent),
   MkObj(Absent, Absent, JArr(<<Block1("a", CidrBlock)>>), Absent)}

\* The arrays of 1..MaxBlocks elements that hold x under key "a" in block p,
\* alone or beside key "b"; the blocks before p hold a constant, the elements
\* after p are null.
WrapSet(xs) ==
  {JArr([i \in 1..n |->
          IF i < p THEN Block1("b", CidrBlock)
          ELSE IF i > p THEN JNull
          ELSE IF sib THEN Block2("a", x, "b", CidrBlock) ELSE Block1("a", x)]) :
     <<x, n, p, sib>> \in {q \in xs \X (1..MaxBlocks) \X (1..MaxBlocks) \X BOOLEAN : q[3] <= q[2]}}

RECURSIVE Nested(_)
Nested(d) == IF d = 0 THEN Inner ELSE Inner \cup WrapSet(Nested(d - 1))

\* The raw bytes handed to the decoder.
Inputs == Atoms \cup LeafObjects \cup WrapSet(Nested(MaxDepth - 1))

\* ----------------------------------------------- the expression pipeline
\* The fields typed Expression that encoding/json decodes from the struct
\* definitions alone.
Positions ==
  {"ProviderConfig.Expressions", "ConfigProvisioner.Expressions",
   "ModuleCall.Expressions", "ModuleCall.CountExpression",
   "ModuleCall.ForEachExpression", "ConfigOutput.Expression"}

\* expr, err := unmarshalExpression(raw)
UnmarshalExpression ==
  /\ pc = "start"
  /\ expr' = unmarshalExpression(raw).expr
  /\ err' = unmarshalExpression(raw).err
  /\ pc' = "decoded"
  /\ UNCHANGED <<raw, encoded, expr2, err2, pos>>
  /\ UNCHANGED resVars
  /\ UNCHANGED docVars

\* encoded, _ := json.Marshal(expr), for an expr decoded without error.
Marshal ==
  /\ pc = "decoded"
  /\ err = NoErr
  /\ encoded' = marshalExpression(expr)
  /\ pc' = "marshaled"
  /\ UNCHANGED <<raw, expr, err, expr2, err2, pos>>
  /\ UNCHANGED resVars
  /\ UNCHANGED docVars

\* expr2, err2 := unmarshalExpression(encoded)
Redecode ==
  /\ pc = "marshaled"
  /\ expr2' = unmarshalExpression(encoded).expr
  /\ err2' = unmarshalExpression(encoded).err
  /\ pc' = "redecoded"
  /\ UNCHANGED <<raw, expr, err, encoded, pos>>
  /\ UNCHANGED resVars
  /\ UNCHANGED docVars

\* json.Unmarshal of a document that holds raw at one of Positions: the
\* field is decoded as a plain struct, a type error leaving what was decoded
\* so far (a *Expression left nil is read as the zero Expression).
UnmarshalField ==
  /\ pc = "start"
  /\ \E p \in Positions : pos' = p
  /\ expr' = unmarshalStruct(raw).expr
  /\ err' = unmarshalStruct(raw).err
  /\ pc' = "field"
  /\ UNCHANGED <<raw, encoded, expr2, err2>>
  /\ UNCHANGED resVars
  /\ UNCHANGED docVars

\* ------------------------------------------ ConfigResource.UnmarshalJSON
\* The key under which raw sits in the resource's "expressions" member.
ExprKey == "ingress"

\* The bytes of a resource: null, or an object whose expressions member
\* holds raw (malformed as a whole when raw is).
ResourceBytes(shape) ==
  IF shape = "null" THEN JNull
  ELSE IF raw = Bad THEN Bad
  ELSE JObj([k \in {"address", "expressions"} |->
              IF k = "address" THEN JStr("aws_vpc.main")
              ELSE JObj([f \in {ExprKey} |-> raw])])

\* The zero ConfigResource, as far as UnmarshalJSON writes it.
ZeroResource == [Expressions |-> GNil, RawExpressions |-> GNil]

\* Lines 122-132 on the receiver rc: Expressions is made, then filled key by
\* key from RawExpressions; the first failure returns with what was filled
\* and RawExpressions left in place, success clears RawExpressions.
fillExpressions(rc) ==
  LET rawm == Entries(rc.RawExpressions)
      ks == SelectSeq(<<ExprKey>> \o memberOrder, LAMBDA k : k \in DOMAIN rawm)
      res == [k \in DOMAIN rawm |-> unmarshalExpression(rawm[k])]
      errs == [i \in DOMAIN ks |-> res[ks[i]].err]
      done == {ks[i] : i \in {n \in DOMAIN ks : \A m \in 1..n : errs[m] = NoErr}}
  IN [recv |-> [Expressions |-> MapOf([k \in done |-> res[k].expr]),
                RawExpressions |-> IF FirstError(errs) = NoErr THEN GNil
                                   ELSE rc.RawExpressions],
      err |-> FirstError(errs)]

\* A caller invokes (*ConfigResource).UnmarshalJSON(b) on a fresh receiver.
UnmarshalJSON ==
  /\ pc = "start"
  /\ \E shape \in {"null", "object"} : b' = ResourceBytes(shape)
  /\ depth' = 1
  /\ r' = "receiver"
  /\ pc' = "line118"
  /\ UNCHANGED <<raw, recv, rerr>>
  /\ UNCHANGED exprVars
  /\ UNCHANGED docVars

\* Line 118, b not valid JSON: json.Unmarshal fails its syntax check and the
\* activation returns the error (line 119).
InnerSyntaxError ==
  /\ pc = "line118"
  /\ b = Bad
  /\ rerr' = SyntaxError
  /\ depth' = depth - 1
  /\ pc' = "returned"
  /\ UNCHANGED <<raw, b, r, recv>>
  /\ UNCHANGED exprVars
  /\ UNCHANGED docVars

\* Line 118, b is null: json.Unmarshal(b, &r) stores nil in the local r and
\* returns nil.
InnerNull ==
  /\ pc = "line118"
  /\ b = JNull
  /\ r' = "nil"
  /\ pc' = "line122"
  /\ UNCHANGED <<raw, b, depth, recv, rerr>>
  /\ UNCHANGED exprVars
  /\ UNCHANGED docVars

\* Line 118, any other JSON: json.Unmarshal(b, &r) follows &r to r, a
\* *ConfigResource, which implements json.Unmarshaler, and calls
\* r.UnmarshalJSON on the same bytes: a new activation at line 118.
InnerReenter ==
  /\ pc = "line118"
  /\ b \notin {Bad, JNull}
  /\ depth < MaxStack
  /\ depth' = depth + 1
  /\ UNCHANGED <<raw, pc, b, r, recv, rerr>>
  /\ UNCHANGED exprVars
  /\ UNCHANGED docVars

\* The same call with the goroutine stack exhausted: the runtime aborts the
\* process ("fatal error: stack overflow").
StackOverflow ==
  /\ pc = "line118"
  /\ b \notin {Bad, JNull}
  /\ depth = MaxStack
  /\ pc' = "stack_overflow"
  /\ UNCHANGED <<raw, b, depth, r, recv, rerr>>
  /\ UNCHANGED exprVars
  /\ UNCHANGED docVars

\* Lines 122-133, after the inner json.Unmarshal returned nil: with r nil the
\* store to r.Expressions panics (nil pointer dereference); otherwise the
\* receiver is filled and the activation returns to its caller.
FillExpressions ==
  /\ pc = "line122"
  /\ IF r = "nil"
     THEN /\ pc' = "panic"
          /\ UNCHANGED <<depth, recv, rerr>>
     ELSE /\ recv' = fillExpressions(recv).recv
          /\ rerr' = fillExpressions(recv).err
          /\ depth' = depth - 1
          /\ pc' = IF depth = 1 \/ fillExpressions(recv).err # NoErr
                   THEN "returned" ELSE "line122"
  /\ UNCHANGED <<raw, b, r>>
  /\ UNCHANGED exprVars
  /\ UNCHANGED docVars

\* ------------------------------------------------------ the version gate
\* plan.go PlanFormatVersion.
PlanFormatVersion == "0.1"

\* errors.New(msg)
ErrorsNew(msg) == [kind |-> "errorString", Value |-> msg, Type |-> "", Field |-> ""]

\* config.go (*Config).Validate.
Validate(cfg) == IF cfg = GNil THEN ErrorsNew("config is nil") ELSE NoErr

ProviderNames == {"aws", "null"}
OutputNames == {"vpc_id", "cidr"}

\* The top-level documents: format_version absent, empty, the supported
\* version or another one; any provider_config; root_module absent or with
\* any outputs.
Documents ==
  [format_version : {Absent, JStr(""), JStr(PlanFormatVersion), JStr("9.9")},
   provider_config : SUBSET ProviderNames,
   root_module : {Absent} \cup {JObj([k \in {"outputs"} |-> o]) : o \in SUBSET OutputNames}]

\* The format_version string a document carries ("" when absent).
FormatVersionOf(d) == IF d.format_version = Absent THEN "" ELSE d.format_version.v

\* json.Unmarshal(doc, &c) with c a *Config: provider_config and root_module
\* are decoded, every other member (format_version among them) is skipped.
UnmarshalConfig ==
  /\ vpc = "idle"
  /\ c = GNil
  /\ c' = [t |-> "Config",
           ProviderConfigs |-> IF doc.provider_config = {} THEN GNil
                               ELSE MapOf(doc.provider_config),
           RootModule |-> IF doc.root_module = Absent THEN GNil
                          ELSE [Outputs |-> doc.root_module.v["outputs"]]]
  /\ UNCHANGED <<doc, plan, verr, vpc, raw, pc>>
  /\ UNCHANGED exprVars
  /\ UNCHANGED resVars

\* json.Unmarshal(doc, &plan) with plan a *Plan: FormatVersion holds the
\* document's format_version.
UnmarshalPlan ==
  /\ vpc = "idle"
  /\ plan = GNil
  /\ plan' = [t |-> "Plan", FormatVersion |-> FormatVersionOf(doc)]
  /\ UNCHANGED <<doc, c, verr, vpc, raw, pc>>
  /\ UNCHANGED exprVars
  /\ UNCHANGED resVars

\* verr := c.Validate()
ValidateConfig ==
  /\ vpc = "idle"
  /\ verr' = Validate(c)
  /\ vpc' = "validated"
  /\ UNCHANGED <<doc, c, plan, raw, pc>>
  /\ UNCHANGED exprVars
  /\ UNCHANGED resVars

\* ------------------------------------------------------- specifications
DefaultDoc == [format_version |-> JStr(PlanFormatVersion), provider_config |-> {},
               root_module |-> Absent]

InitCommon ==
  /\ pc = "start"
  /\ expr = ZeroExpression
  /\ err = NoErr
  /\ encoded = JNull
  /\ expr2 = ZeroExpression
  /\ err2 = NoErr
  /\ pos = "none"
  /\ b = JNull
  /\ depth = 0
  /\ r = "receiver"
  /\ recv = ZeroResource
  /\ rerr = NoErr
  /\ c = GNil
  /\ plan = GNil
  /\ verr = NoErr
  /\ vpc = "idle"

Init ==
  /\ raw \in Inputs
  /\ doc = DefaultDoc
  /\ InitCommon

Next ==
  \/ UnmarshalExpression
  \/ Marshal
  \/ Redecode
  \/ UnmarshalField
  \/ UnmarshalJSON
  \/ InnerSyntaxError
  \/ InnerNull
  \/ InnerReenter
  \/ StackOverflow
  \/ FillExpressions

Spec == Init /\ [][Next]_vars

InitValidate ==
  /\ raw = JNull
  /\ doc \in Documents
  /\ InitCommon

NextValidate ==
  \/ UnmarshalConfig
  \/ UnmarshalPlan
  \/ ValidateConfig

SpecValidate == InitValidate /\ [][NextValidate]_vars

\* ================================================================ claims
\* The three payloads of an Expression.
HasConstant(e) == e.ConstantValue # GNil
HasReferences(e) == Len(Elems(e.References)) > 0
HasNestedBlocks(e) == Len(Elems(e.NestedBlocks)) > 0

\* An array whose elements are all objects.
IsArrayOfObjects(j) == j.t = "arr" /\ \A i \in DOMAIN j.v : j.v[i].t = "obj"

RECURSIVE SameExpression(_, _)
\* Structural equality: the same constant, the same sequence of references,
\* the same sequence of blocks with the same keys, recursively.
SameExpression(e1, e2) ==
  LET b1 == Elems(e1.NestedBlocks)
      b2 == Elems(e2.NestedBlocks)
  IN /\ e1.ConstantValue = e2.ConstantValue
     /\ Elems(e1.References) = Elems(e2.References)
     /\ Len(b1) = Len(b2)
     /\ \A i \in DOMAIN b1 :
          /\ DOMAIN Entries(b1[i]) = DOMAIN Entries(b2[i])
          /\ \A k \in DOMAIN Entries(b1[i]) :
               SameExpression(Entries(b1[i])[k], Entries(b2[i])[k])

\* C1: every Expression decoded without error, encoded and decoded again,
\* decodes without error to a structurally equal Expression.
C1_RoundTrip == pc = "redecoded" => err2 = NoErr /\ SameExpression(expr2, expr)

\* A round trip of a block list that holds a constant, references and a
\* block list nested inside a block.
C1_Witness ==
  /\ pc = "redecoded"
  /\ HasNestedBlocks(expr)
  /\ \E i \in DOMAIN Elems(expr.NestedBlocks) :
       LET blk == Entries(Elems(expr.NestedBlocks)[i])
       IN \E k \in DOMAIN blk :
            /\ HasNestedBlocks(blk[k])
            /\ \E i2 \in DOMAIN Elems(blk[k].NestedBlocks) :
                 LET blk2 == Entries(Elems(blk[k].NestedBlocks)[i2])
                 IN \E k2 \in DOMAIN blk2 : HasConstant(blk2[k2]) /\ HasReferences(blk2[k2])

\* C2: a decoded Expression carries at most one of the three payloads, and
\* one with nested blocks has a blank ConstantValue and blank References.
C2_MutualExclusivity ==
  pc = "decoded" /\ err = NoErr =>
    /\ ~(HasConstant(expr) /\ HasReferences(expr))
    /\ HasNestedBlocks(expr) => ~HasConstant(expr) /\ ~HasReferences(expr)

\* The Expression is a block list with one block per element of array j.
IsNestedBlockListOf(e, j) ==
  /\ ~HasConstant(e)
  /\ ~HasReferences(e)
  /\ Len(Elems(e.NestedBlocks)) = Len(j.v)

\* Some value inside the objects of array j does not decode.
SomeValueFails(j) ==
  \E i \in DOMAIN j.v : \E k \in DOMAIN j.v[i].v : unmarshalExpression(j.v[i].v[k]).err # NoErr

\* C3 as stated: an array of objects always decodes, without error, to a
\* block list, whatever the values inside the objects.
C3_AlwaysNestedBlockList ==
  pc = "decoded" /\ IsArrayOfObjects(raw) => err = NoErr /\ IsNestedBlockListOf(expr, raw)

\* C3 amended: an array of objects never decodes to a constant or to
\* references; it decodes to a block list with one block per element, or,
\* exactly when a value inside one of its objects fails to decode, to an
\* error and the zero Expression.
C3_DispatchPriority ==
  pc = "decoded" /\ IsArrayOfObjects(raw) =>
    IF SomeValueFails(raw)
    THEN err # NoErr /\ expr = ZeroExpression
    ELSE err = NoErr /\ IsNestedBlockListOf(expr, raw)

\* Two objects whose values have the shapes of a constant and of references
\* decode to a list of two blocks.
C3_Witness ==
  /\ pc = "decoded"
  /\ IsArrayOfObjects(raw)
  /\ Len(raw.v) = 2
  /\ \E k \in DOMAIN raw.v[2].v :
       /\ raw.v[2].v[k].t = "obj"
       /\ {"constant_value", "references"} \subseteq DOMAIN raw.v[2].v[k].v
  /\ err = NoErr
  /\ Len(Elems(expr.NestedBlocks)) = 2

\* C4: validate fails exactly when the document is nil, or its
\* format_version is empty, or differs from the supported version.
C4_VersionGate ==
  vpc = "validated" =>
    (verr # NoErr <=>
       \/ c = GNil
       \/ FormatVersionOf(doc) = ""
       \/ FormatVersionOf(doc) # PlanFormatVersion)

\* C5: an Expression with nested blocks is encoded as an array of objects,
\* any other as an object holding constant_value and references only when
\* populated, and no other member.
C5_EncodeShape ==
  pc \in {"marshaled", "redecoded"} =>
    IF HasNestedBlocks(expr)
    THEN encoded.t = "arr" /\ \A i \in DOMAIN encoded.v : encoded.v[i].t = "obj"
    ELSE /\ encoded.t = "obj"
         /\ DOMAIN encoded.v \subseteq {"constant_value", "references"}
         /\ "constant_value" \in DOMAIN encoded.v <=> HasConstant(expr)
         /\ "references" \in DOMAIN encoded.v <=> HasReferences(expr)

C7_SameDecoderEverywhere ==
  pc = "field" /\ IsArrayOfObjects(raw) =>
    /\ expr = unmarshalExpression(raw).expr
    /\ err = unmarshalExpression(raw).err

RECURSIVE FailurePath(_)
\* The field names on the way to the values that fail to decode inside j.
FailurePath(j) ==
  IF unmarshalRawNested(j).err = NoErr /\ j.t = "arr"
  THEN UNION {UNION {{k} \cup FailurePath(j.v[i].v[k]) :
                       k \in {n \in DOMAIN Entries(Elems(unmarshalRawNested(j).val)[i]) :
                                unmarshalExpression(j.v[i].v[n]).err # NoErr}} :
                i \in DOMAIN j.v}
  ELSE {}

\* C8: a failing decode returns an error that names the field at which the
\* failure occurred: the resource's key, or a key on the way to the failing
\* nested value.
C8_ErrorNamesField ==
  pc = "decoded" /\ err # NoErr => err.Field \in {ExprKey} \cup FailurePath(raw)

\* C9: ConfigResource.UnmarshalJSON does not re-enter itself until the stack
\* is exhausted, and on a successful return RawExpressions is nil and
\* Expressions holds exactly the keys of the input's expressions object.
C9_Terminates ==
  /\ pc # "stack_overflow"
  /\ pc = "returned" /\ rerr = NoErr =>
       /\ recv.RawExpressions = GNil
       /\ DOMAIN Entries(recv.Expressions) = {ExprKey}

RECURSIVE Preserves(_, _)
\* Expression e is the block list of array j: as many blocks, in order, each
\* with the keys of its object (none for null), an array value again a block
\* list, any other value the struct decoded from it.
Preserves(e, j) ==
  LET blocks == Elems(e.NestedBlocks)
  IN /\ ~HasConstant(e)
     /\ ~HasReferences(e)
     /\ Len(blocks) = Len(j.v)
     /\ \A i \in DOMAIN j.v :
          LET members == IF j.v[i].t = "obj" THEN j.v[i].v ELSE NoMembers
          IN /\ blocks[i].t = "map"
             /\ DOMAIN blocks[i].v = DOMAIN members
             /\ \A k \in DOMAIN members :
                  IF members[k].t = "arr"
                  THEN Preserves(blocks[i].v[k], members[k])
                  ELSE blocks[i].v[k] = unmarshalStruct(members[k]).expr

\* C10: an array of n objects that decodes without error yields n blocks in
\* order, block i with the keys of object i, each key holding the decoded
\* value, at every depth.
C10_StructurePreserved ==
  pc = "decoded" /\ err = NoErr /\ raw.t = "arr" => Preserves(expr, raw)

\* A two-element array, its second element null, whose first object holds an
\* array of objects that is decoded to a block list in turn.
C10_Witness ==
  /\ pc = "decoded"
  /\ err = NoErr
  /\ raw.t = "arr"
  /\ Len(raw.v) = 2
  /\ raw.v[2].t = "null"
  /\ raw.v[1].t = "obj"
  /\ \E k \in DOMAIN raw.v[1].v :
       /\ raw.v[1].v[k].t = "arr"
       /\ Len(raw.v[1].v[k].v) > 0
       /\ HasNestedBlocks(Elems(expr.NestedBlocks)[1].v[k])

====
